---- MODULE Spec2Model ----
(***************************************************************************)
(* State-machine model of the timetracker "entries" application:           *)
(*   src/timetracker/entries/views.py                                      *)
(*   src/timetracker/entries/migrations/0004_entry_author.py               *)
(*   src/timetracker/entries/migrations/0005_auto_20150909_0538.py         *)
(*                                                                         *)
(* The database is three tables (Client, Project, Entry).  Rows are never  *)
(* deleted and primary keys are assigned in insertion order, so a table is *)
(* a sequence and a row's primary key is its index.  One step of the model *)
(* is one whole HTTP request handled by one view, or one schema migration. *)
(*                                                                         *)
(* req, pre and resp record the last request, the database as it was       *)
(* before that request, and the response the view returned, so that what a *)
(* handler did is a predicate on the state.                                *)
(***************************************************************************)
EXTENDS Naturals, Sequences, FiniteSets

VARIABLES applied,   \* names of the schema migrations applied so far
          clients,   \* table Client : Seq([name, author])
          projects,  \* table Project: Seq([name, client, author])
          entries,   \* table Entry  : Seq([start, stop, project, description, author])
          session,   \* session -> the user logged in on it, or Anonymous
          req,       \* the last request (or migration) handled
          pre,       \* the three tables before the last request
          resp       \* the response to the last request

vars == <<applied, clients, projects, entries, session, req, pre, resp>>

----------------------------------------------------------------------------
(* Bounds of the model *)

\* total number of rows over the three tables
MaxRows == 3

Users == {"u1", "u2"}
Sessions == {"s1"}
Names == {"Acme", "Bolt"}

----------------------------------------------------------------------------
(* Values *)

\* request.user of a session nobody is logged in on
Anonymous == "AnonymousUser"
\* SQL NULL in the author column
Null == "NULL"
\* the value of "author" in a row of a table that has no author column yet
NoColumn == "no_column"

M0003 == "0003_create_fk_to_client"
M0004 == "0004_entry_author"
M0005 == "0005_auto_20150909_0538"

DB == [clients |-> clients, projects |-> projects, entries |-> entries]

Rows(db) == Len(db.clients) + Len(db.projects) + Len(db.entries)

NoData == [name |-> "", client |-> 0, start |-> 0, stop |-> 0,
           project |-> 0, description |-> ""]

----------------------------------------------------------------------------
(* Responses *)

Render(template, list, object, errors) ==
    [status |-> "render", location |-> template, list |-> list,
     object |-> object, errors |-> errors]

Redirect(to) ==
    [status |-> "redirect", location |-> to, list |-> <<>>,
     object |-> <<>>, errors |-> FALSE]

NotFound ==
    [status |-> "not_found", location |-> "", list |-> <<>>,
     object |-> <<>>, errors |-> FALSE]

ServerError ==
    [status |-> "error", location |-> "", list |-> <<>>,
     object |-> <<>>, errors |-> FALSE]

Unchanged(response) == [db |-> DB, resp |-> response]

----------------------------------------------------------------------------
(* Forms (entries/forms.py): ModelForms over the fields named in the        *)
(* specification.  A required field must be present; a foreign key must     *)
(* name an existing row.                                                    *)

ClientForm_is_valid(data) == data.name # ""

ProjectForm_is_valid(data) ==
    /\ data.name # ""
    /\ data.client \in DOMAIN clients

EntryForm_is_valid(data) ==
    /\ data.start # 0
    /\ data.stop # 0
    /\ data.project \in DOMAIN projects

ClientInputs == {[NoData EXCEPT !.name = n] : n \in Names \cup {""}}

ProjectInputs ==
    {[NoData EXCEPT !.name = n, !.client = c] :
        n \in Names \cup {""}, c \in 0..Len(clients)}

EntryInputs ==
    {[NoData EXCEPT !.start = s, !.stop = 17, !.project = p,
                    !.description = "work"] :
        s \in {0, 9}, p \in 0..Len(projects)}

----------------------------------------------------------------------------
(* LoginRequiredMixin.dispatch: login_required lets the request through to  *)
(* the view's own dispatch only for an authenticated user; otherwise the    *)
(* response is a redirect to the login URL and no handler code runs.        *)

login_required(user) == user # Anonymous

LoginRedirect == Redirect("LOGIN_URL")

----------------------------------------------------------------------------
(* Client views *)

\* clients(request): no authentication, the row is saved without an author
clients_view(user, method, data) ==
    IF method = "POST" /\ ClientForm_is_valid(data)
    THEN [db   |-> [DB EXCEPT !.clients =
                       Append(@, [name |-> data.name, author |-> Null])],
          resp |-> Redirect("client-list")]
    ELSE Unchanged(Render("clients.html", clients, <<>>, method = "POST"))

ClientCreateView_form_valid_NoAuthor(data, user) ==
    [name |-> data.name, author |-> Null]

\* ClientCreateView.form_valid: form.instance.author = self.request.user
ClientCreateView_form_valid(data, user) ==
    [name |-> data.name, author |-> user]

\* ClientCreateView.get_context_data: context['client_list']
ClientCreateView_get_context_data(user) == clients

ClientCreateView_SavesInvalid(user, method, data) ==
    IF method = "GET"
    THEN Unchanged(Render("clients.html",
                          ClientCreateView_get_context_data(user), <<>>, FALSE))
    ELSE IF user = Anonymous
    THEN Unchanged(ServerError)
    ELSE [db   |-> [DB EXCEPT !.clients =
                       Append(@, ClientCreateView_form_valid(data, user))],
          resp |-> Redirect("client-list")]

\* ClientCreateView is a plain CreateView: it has no LoginRequiredMixin.
\* Assigning AnonymousUser to the author foreign key raises ValueError.
ClientCreateView(user, method, data) ==
    IF method = "GET"
    THEN Unchanged(Render("clients.html",
                          ClientCreateView_get_context_data(user), <<>>, FALSE))
    ELSE IF ~ClientForm_is_valid(data)
    THEN Unchanged(Render("clients.html",
                          ClientCreateView_get_context_data(user), <<>>, TRUE))
    ELSE IF user = Anonymous
    THEN Unchanged(ServerError)
    ELSE [db   |-> [DB EXCEPT !.clients =
                       Append(@, ClientCreateView_form_valid(data, user))],
          resp |-> Redirect("client-list")]

\* client_detail(request, pk): get_object_or_404 over all clients
client_detail(user, method, pk, data) ==
    IF pk \notin DOMAIN clients
    THEN Unchanged(NotFound)
    ELSE IF method = "POST" /\ ClientForm_is_valid(data)
    THEN [db   |-> [DB EXCEPT !.clients[pk].name = data.name],
          resp |-> Redirect("client-list")]
    ELSE Unchanged(Render("client_detail.html", <<>>, <<clients[pk]>>,
                          method = "POST"))

ClientUpdateView_get_queryset_All(user) == DOMAIN clients

ClientUpdateView_get_queryset_OrNull(user) ==
    {pk \in DOMAIN clients : clients[pk].author \in {user, Null}}

\* ClientUpdateView.get_queryset: qs.filter(author=self.request.user)
ClientUpdateView_get_queryset(user) ==
    {pk \in DOMAIN clients : clients[pk].author = user}

ClientUpdateView_form_save_Nothing(row, data) == row

ClientUpdateView_form_save_DropsAuthor(row, data) ==
    [name |-> data.name, author |-> Null]

\* ClientForm bound to the instance: save() writes the form's fields only
ClientUpdateView_form_save(row, data) == [row EXCEPT !.name = data.name]

ClientUpdateView(user, method, pk, data) ==
    IF ~login_required(user)
    THEN Unchanged(LoginRedirect)
    ELSE IF pk \notin ClientUpdateView_get_queryset(user)
    THEN Unchanged(NotFound)
    ELSE IF method = "GET"
    THEN Unchanged(Render("client_detail.html", <<>>, <<clients[pk]>>, FALSE))
    ELSE IF ~ClientForm_is_valid(data)
    THEN Unchanged(Render("client_detail.html", <<>>, <<clients[pk]>>, TRUE))
    ELSE [db   |-> [DB EXCEPT !.clients[pk] =
                       ClientUpdateView_form_save(clients[pk], data)],
          resp |-> Redirect("client-list")]

\* ClientRedirectView: a non-permanent redirect to client-list
ClientRedirectView(user) ==
    IF ~login_required(user)
    THEN Unchanged(LoginRedirect)
    ELSE Unchanged(Redirect("client-list"))

----------------------------------------------------------------------------
(* Entry views *)

\* entries(request): Entry() is saved with the four form fields, no author
entries_view(user, method, data) ==
    IF method = "POST" /\ EntryForm_is_valid(data)
    THEN [db   |-> [DB EXCEPT !.entries =
                       Append(@, [start |-> data.start, stop |-> data.stop,
                                  project |-> data.project,
                                  description |-> data.description,
                                  author |-> Null])],
          resp |-> Redirect("entry-list")]
    ELSE Unchanged(Render("entries.html", entries, <<>>, method = "POST"))

\* EntryCreateView.get_context_data: context['entry_list'] = Entry.objects.all()
EntryCreateView_get_context_data(user) == entries

\* EntryCreateView.get_queryset: filters by author, but a CreateView with
\* model and form_class set never asks for its queryset
EntryCreateView_get_queryset(user) ==
    {pk \in DOMAIN entries : entries[pk].author = user}

\* EntryCreateView.form_valid: form.instance.author = self.request.user
EntryCreateView_form_valid(data, user) ==
    [start |-> data.start, stop |-> data.stop, project |-> data.project,
     description |-> data.description, author |-> user]

EntryCreateView(user, method, data) ==
    IF ~login_required(user)
    THEN Unchanged(LoginRedirect)
    ELSE IF method = "GET"
    THEN Unchanged(Render("entries.html",
                          EntryCreateView_get_context_data(user), <<>>, FALSE))
    ELSE IF ~EntryForm_is_valid(data)
    THEN Unchanged(Render("entries.html",
                          EntryCreateView_get_context_data(user), <<>>, TRUE))
    ELSE [db   |-> [DB EXCEPT !.entries =
                       Append(@, EntryCreateView_form_valid(data, user))],
          resp |-> Redirect("entry-list")]

----------------------------------------------------------------------------
(* Project views *)

\* projects(request): Project.objects.create(name=..., client=...), no author
projects_view(user, method, data) ==
    IF method = "POST" /\ ProjectForm_is_valid(data)
    THEN [db   |-> [DB EXCEPT !.projects =
                       Append(@, [name |-> data.name, client |-> data.client,
                                  author |-> Null])],
          resp |-> Redirect("project-list")]
    ELSE Unchanged(Render("projects.html", projects, <<>>, method = "POST"))

\* ProjectCreateView.get_context_data: context['project_list'] = Project.objects.all()
ProjectCreateView_get_context_data(user) == projects

\* ProjectCreateView.get_queryset: as EntryCreateView.get_queryset, never asked for
ProjectCreateView_get_queryset(user) ==
    {pk \in DOMAIN projects : projects[pk].author = user}

\* ProjectCreateView.form_valid: form.instance.author = self.request.user
ProjectCreateView_form_valid(data, user) ==
    [name |-> data.name, client |-> data.client, author |-> user]

ProjectCreateView(user, method, data) ==
    IF ~login_required(user)
    THEN Unchanged(LoginRedirect)
    ELSE IF method = "GET"
    THEN Unchanged(Render("projects.html",
                          ProjectCreateView_get_context_data(user), <<>>, FALSE))
    ELSE IF ~ProjectForm_is_valid(data)
    THEN Unchanged(Render("projects.html",
                          ProjectCreateView_get_context_data(user), <<>>, TRUE))
    ELSE [db   |-> [DB EXCEPT !.projects =
                       Append(@, ProjectCreateView_form_valid(data, user))],
          resp |-> Redirect("project-list")]

\* project_detail(request, pk): get_object_or_404 over all projects
project_detail(user, method, pk, data) ==
    IF pk \notin DOMAIN projects
    THEN Unchanged(NotFound)
    ELSE IF method = "POST" /\ ProjectForm_is_valid(data)
    THEN [db   |-> [DB EXCEPT !.projects[pk].name = data.name,
                              !.projects[pk].client = data.client],
          resp |-> Redirect("project-list")]
    ELSE Unchanged(Render("project_detail.html", <<>>, <<projects[pk]>>,
                          method = "POST"))

\* ProjectUpdateView.get_queryset: qs.filter(author=self.request.user)
ProjectUpdateView_get_queryset(user) ==
    {pk \in DOMAIN projects : projects[pk].author = user}

\* ProjectForm bound to the instance: save() writes the form's fields only
ProjectUpdateView_form_save(row, data) ==
    [row EXCEPT !.name = data.name, !.client = data.client]

ProjectUpdateView(user, method, pk, data) ==
    IF ~login_required(user)
    THEN Unchanged(LoginRedirect)
    ELSE IF pk \notin ProjectUpdateView_get_queryset(user)
    THEN Unchanged(NotFound)
    ELSE IF method = "GET"
    THEN Unchanged(Render("project_detail.html", <<>>, <<projects[pk]>>, FALSE))
    ELSE IF ~ProjectForm_is_valid(data)
    THEN Unchanged(Render("project_detail.html", <<>>, <<projects[pk]>>, TRUE))
    ELSE [db   |-> [DB EXCEPT !.projects[pk] =
                       ProjectUpdateView_form_save(projects[pk], data)],
          resp |-> Redirect("project-list")]

----------------------------------------------------------------------------
(* Sessions *)

logout_KeepsSession(s) == [session |-> session, resp |-> Redirect("/")]

\* logout(request): auth_logout flushes the session; redirect('/')
logout(s) == [session |-> [session EXCEPT ![s] = Anonymous],
              resp    |-> Redirect("/")]

\* the login flow behind LOGIN_URL: the session now carries the user
login(s, u) == [session |-> [session EXCEPT ![s] = u],
                resp    |-> Redirect("LOGIN_REDIRECT_URL")]

----------------------------------------------------------------------------
(* Migrations *)

dependencies_None(m) == {}

\* Migration.dependencies: the migrations of this application that must
\* have been applied first
dependencies(m) ==
    IF m = M0004 THEN {M0003}
    ELSE IF m = M0005 THEN {M0004}
    ELSE {}

\* AddField(author, ForeignKey(null=True)): the new column is NULL in
\* every existing row, the other columns are untouched
AddField_author(table) ==
    [pk \in DOMAIN table |-> [table[pk] EXCEPT !.author = Null]]

\* the application's models select and insert the author column of all
\* three tables, so the views serve requests on the migrated schema only
SchemaCurrent == {M0003, M0004, M0005} \subseteq applied

----------------------------------------------------------------------------
(* Initial state: a database created before the author columns existed,     *)
(* holding rows of every table, with no migration of this model applied     *)
(* and nobody logged in.                                                     *)

LegacyClient == [name |-> "Acme", author |-> NoColumn]
LegacyProject == [name |-> "Site", client |-> 1, author |-> NoColumn]
LegacyEntry == [start |-> 9, stop |-> 17, project |-> 1,
                description |-> "work", author |-> NoColumn]

LegacyDBs ==
    {[clients |-> <<>>, projects |-> <<>>, entries |-> <<>>],
     [clients |-> <<LegacyClient>>, projects |-> <<>>, entries |-> <<>>],
     [clients |-> <<LegacyClient>>, projects |-> <<LegacyProject>>,
      entries |-> <<>>],
     [clients |-> <<LegacyClient>>, projects |-> <<LegacyProject>>,
      entries |-> <<LegacyEntry>>]}

Req(view, method, s, user, pk, data) ==
    [view |-> view, method |-> method, session |-> s, user |-> user,
     pk |-> pk, data |-> data]

\* no request is being handled
NoRequest == Req("", "", "", "", 0, NoData)

Idle == req = NoRequest

NoResponse ==
    [status |-> "none", location |-> "", list |-> <<>>,
     object |-> <<>>, errors |-> FALSE]

Init ==
    /\ applied = {}
    /\ \E db \in LegacyDBs :
          /\ Rows(db) <= MaxRows
          /\ clients = db.clients
          /\ projects = db.projects
          /\ entries = db.entries
          /\ pre = db
    /\ session = [s \in Sessions |-> Anonymous]
    /\ req = NoRequest
    /\ resp = NoResponse

----------------------------------------------------------------------------
(* Steps *)

Methods == {"GET", "POST"}

\* a GET carries no form data
Body(method, inputs) == IF method = "GET" THEN {NoData} ELSE inputs

\* one request, handled to completion by one view
\* (out is the handler's outcome, evaluated once)
Serve(view, method, s, pk, data, outcome) ==
  \E out \in {outcome} :
    /\ Rows(out.db) <= MaxRows
    /\ pre' = DB
    /\ clients' = out.db.clients
    /\ projects' = out.db.projects
    /\ entries' = out.db.entries
    /\ resp' = out.resp
    /\ req' = Req(view, method, s, session[s], pk, data)
    /\ UNCHANGED <<applied, session>>

Handle_clients ==
    /\ Idle
    /\ SchemaCurrent
    /\ \E s \in Sessions, method \in Methods :
      \E data \in Body(method, ClientInputs) :
        Serve("clients", method, s, 0, data,
              clients_view(session[s], method, data))

Handle_ClientCreateView ==
    /\ Idle
    /\ SchemaCurrent
    /\ \E s \in Sessions, method \in Methods :
      \E data \in Body(method, ClientInputs) :
        Serve("ClientCreateView", method, s, 0, data,
              ClientCreateView(session[s], method, data))

Handle_client_detail ==
    /\ Idle
    /\ SchemaCurrent
    /\ \E s \in Sessions, method \in Methods, pk \in 1..(Len(clients) + 1) :
      \E data \in Body(method, ClientInputs) :
        Serve("client_detail", method, s, pk, data,
              client_detail(session[s], method, pk, data))

Handle_ClientUpdateView ==
    /\ Idle
    /\ SchemaCurrent
    /\ \E s \in Sessions, method \in Methods, pk \in 1..(Len(clients) + 1) :
      \E data \in Body(method, ClientInputs) :
        Serve("ClientUpdateView", method, s, pk, data,
              ClientUpdateView(session[s], method, pk, data))

Handle_entries ==
    /\ Idle
    /\ SchemaCurrent
    /\ \E s \in Sessions, method \in Methods :
      \E data \in Body(method, EntryInputs) :
        Serve("entries", method, s, 0, data,
              entries_view(session[s], method, data))

Handle_EntryCreateView ==
    /\ Idle
    /\ SchemaCurrent
    /\ \E s \in Sessions, method \in Methods :
      \E data \in Body(method, EntryInputs) :
        Serve("EntryCreateView", method, s, 0, data,
              EntryCreateView(session[s], method, data))

Handle_projects ==
    /\ Idle
    /\ SchemaCurrent
    /\ \E s \in Sessions, method \in Methods :
      \E data \in Body(method, ProjectInputs) :
        Serve("projects", method, s, 0, data,
              projects_view(session[s], method, data))

Handle_ProjectCreateView ==
    /\ Idle
    /\ SchemaCurrent
    /\ \E s \in Sessions, method \in Methods :
      \E data \in Body(method, ProjectInputs) :
        Serve("ProjectCreateView", method, s, 0, data,
              ProjectCreateView(session[s], method, data))

Handle_project_detail ==
    /\ Idle
    /\ SchemaCurrent
    /\ \E s \in Sessions, method \in Methods, pk \in 1..(Len(projects) + 1) :
      \E data \in Body(method, ProjectInputs) :
        Serve("project_detail", method, s, pk, data,
              project_detail(session[s], method, pk, data))

Handle_ProjectUpdateView ==
    /\ Idle
    /\ SchemaCurrent
    /\ \E s \in Sessions, method \in Methods, pk \in 1..(Len(projects) + 1) :
      \E data \in Body(method, ProjectInputs) :
        Serve("ProjectUpdateView", method, s, pk, data,
              ProjectUpdateView(session[s], method, pk, data))

Handle_ClientRedirectView ==
    /\ Idle
    /\ SchemaCurrent
    /\ \E s \in Sessions :
        Serve("ClientRedirectView", "GET", s, 0, NoData,
              ClientRedirectView(session[s]))

\* a request that changes the session and no table
Auth(view, s, out) ==
    /\ SchemaCurrent
    /\ pre' = DB
    /\ session' = out.session
    /\ resp' = out.resp
    /\ req' = Req(view, "POST", s, session[s], 0, NoData)
    /\ UNCHANGED <<applied, clients, projects, entries>>

Handle_logout == Idle /\ \E s \in Sessions : Auth("logout", s, logout(s))

Handle_login == Idle /\ \E s \in Sessions, u \in Users : Auth("login", s, login(s, u))

\* one migration, applied once and only when its dependencies are applied
Migrate(m, db) ==
    /\ Idle
    /\ m \notin applied
    /\ dependencies(m) \subseteq applied
    /\ applied' = applied \cup {m}
    /\ pre' = DB
    /\ clients' = db.clients
    /\ projects' = db.projects
    /\ entries' = db.entries
    /\ req' = Req(m, "migrate", "", "", 0, NoData)
    /\ resp' = NoResponse
    /\ UNCHANGED session

\* 0003_create_fk_to_client: known here only as the dependency of 0004
Migrate_0003 == Migrate(M0003, DB)

\* 0004_entry_author
Migrate_0004 ==
    Migrate(M0004, [DB EXCEPT !.entries = AddField_author(@)])

\* 0005_auto_20150909_0538
Migrate_0005 ==
    Migrate(M0005, [DB EXCEPT !.clients = AddField_author(@),
                              !.projects = AddField_author(@)])

\* the response is sent and the request is over: the worker handles one
\* request at a time, to completion
Respond ==
    /\ ~Idle
    /\ req' = NoRequest
    /\ resp' = NoResponse
    /\ pre' = DB
    /\ UNCHANGED <<applied, clients, projects, entries, session>>

Next ==
    \/ Handle_clients
    \/ Handle_ClientCreateView
    \/ Handle_client_detail
    \/ Handle_ClientUpdateView
    \/ Handle_entries
    \/ Handle_EntryCreateView
    \/ Handle_projects
    \/ Handle_ProjectCreateView
    \/ Handle_project_detail
    \/ Handle_ProjectUpdateView
    \/ Handle_ClientRedirectView
    \/ Handle_logout
    \/ Handle_login
    \/ Migrate_0003
    \/ Migrate_0004
    \/ Migrate_0005
    \/ Respond

Spec == Init /\ [][Next]_vars

----------------------------------------------------------------------------
(* Vocabulary of the properties *)

CreateViews == {"ClientCreateView", "ProjectCreateView", "EntryCreateView"}

UpdateViews == {"ClientUpdateView", "ProjectUpdateView"}

ClassBasedViews == CreateViews \cup UpdateViews \cup {"ClientRedirectView"}

\* the class-based views that mix in LoginRequiredMixin
LoginProtected ==
    {"ClientUpdateView", "EntryCreateView", "ProjectCreateView",
     "ProjectUpdateView", "ClientRedirectView"}

Authenticated == req.user \in Users

\* the submitted form is valid against the database the request found
ValidClientData == req.data.name # ""

ValidProjectData ==
    /\ req.data.name # ""
    /\ req.data.client \in DOMAIN pre.clients

ValidEntryData ==
    /\ req.data.start # 0
    /\ req.data.stop # 0
    /\ req.data.project \in DOMAIN pre.projects

ValidData ==
    IF req.view \in {"ClientCreateView", "ClientUpdateView"} THEN ValidClientData
    ELSE IF req.view \in {"ProjectCreateView", "ProjectUpdateView"}
    THEN ValidProjectData
    ELSE ValidEntryData

\* the row the update request names exists and is authored by the requester
OwnsTarget ==
    \/ /\ req.view = "ClientUpdateView"
       /\ req.pk \in DOMAIN pre.clients
       /\ pre.clients[req.pk].author = req.user
    \/ /\ req.view = "ProjectUpdateView"
       /\ req.pk \in DOMAIN pre.projects
       /\ pre.projects[req.pk].author = req.user

IsLoginRedirect == resp.status = "redirect" /\ resp.location = "LOGIN_URL"

----------------------------------------------------------------------------
(* C1: an unauthenticated GET or POST to a create route (Client, Project,   *)
(* Entry) or an update route (Client, Project) is answered by a redirect to *)
(* the login flow and creates or modifies no row.                           *)
(* The code: ClientCreateView has no LoginRequiredMixin.                    *)
C1_UnauthenticatedIsRedirectedToLogin ==
    (req.view \in CreateViews \cup UpdateViews /\ req.user = Anonymous)
        => (IsLoginRedirect /\ DB = pre)

----------------------------------------------------------------------------
(* C2: for an authenticated user U, the client_list / project_list /        *)
(* entry_list a create view puts in its context, and the rows an update     *)
(* view can resolve, hold no row whose author differs from U.               *)
(* The code: the three lists are Model.objects.all().                       *)
C2_ListsAndQuerysetsHoldOwnRowsOnly ==
    Authenticated =>
        /\ req.view \in CreateViews =>
              \A i \in DOMAIN resp.list : resp.list[i].author = req.user
        /\ \A pk \in ClientUpdateView_get_queryset(req.user) :
              clients[pk].author = req.user
        /\ \A pk \in ProjectUpdateView_get_queryset(req.user) :
              projects[pk].author = req.user

----------------------------------------------------------------------------
(* C3: a valid create submission by an authenticated user U through a       *)
(* class-based create view inserts exactly one row in the view's table,     *)
(* with author U and the submitted fields, changes no other row, and is     *)
(* answered by a redirect to the entity's list route.                       *)
C3_ValidCreateInsertsOneRowOfRequester ==
    (req.view \in CreateViews /\ req.method = "POST" /\ Authenticated
        /\ ValidData) =>
        /\ req.view = "ClientCreateView" =>
              /\ clients = Append(pre.clients,
                     [name |-> req.data.name, author |-> req.user])
              /\ projects = pre.projects
              /\ entries = pre.entries
              /\ resp = Redirect("client-list")
        /\ req.view = "ProjectCreateView" =>
              /\ projects = Append(pre.projects,
                     [name |-> req.data.name, client |-> req.data.client,
                      author |-> req.user])
              /\ clients = pre.clients
              /\ entries = pre.entries
              /\ resp = Redirect("project-list")
        /\ req.view = "EntryCreateView" =>
              /\ entries = Append(pre.entries,
                     [start |-> req.data.start, stop |-> req.data.stop,
                      project |-> req.data.project,
                      description |-> req.data.description,
                      author |-> req.user])
              /\ clients = pre.clients
              /\ projects = pre.projects
              /\ resp = Redirect("entry-list")

C3_Witness ==
    /\ req.view = "EntryCreateView"
    /\ req.method = "POST"
    /\ Authenticated
    /\ ValidData
    /\ Len(entries) = Len(pre.entries) + 1
    /\ entries[Len(entries)].author = req.user
    /\ resp.location = "entry-list"

----------------------------------------------------------------------------
(* C4: a GET or POST by an authenticated user U on the Client or Project    *)
(* update route, with a primary key naming a row authored by another user   *)
(* V, is answered not-found; the response shows nothing of the row and the  *)
(* row is unchanged.                                                        *)
C4_OtherUsersRowIsNotFound ==
    /\ (/\ req.view = "ClientUpdateView"
        /\ Authenticated
        /\ req.pk \in DOMAIN pre.clients
        /\ pre.clients[req.pk].author \in Users \ {req.user})
           => (resp = NotFound /\ DB = pre)
    /\ (/\ req.view = "ProjectUpdateView"
        /\ Authenticated
        /\ req.pk \in DOMAIN pre.projects
        /\ pre.projects[req.pk].author \in Users \ {req.user})
           => (resp = NotFound /\ DB = pre)

C4_Witness ==
    /\ req.view = "ProjectUpdateView"
    /\ req.method = "POST"
    /\ Authenticated
    /\ ValidData
    /\ req.pk \in DOMAIN pre.projects
    /\ pre.projects[req.pk].author \in Users \ {req.user}
    /\ req.data.name # pre.projects[req.pk].name
    /\ resp.status = "not_found"

----------------------------------------------------------------------------
(* C5 as stated: every POST with invalid form input to a create or update   *)
(* view leaves the tables unchanged and is answered by the re-rendered form *)
(* carrying the validation errors, not by a redirect or an exception.       *)
C5_InvalidPostRerendersForm ==
    (req.view \in CreateViews \cup UpdateViews /\ req.method = "POST"
        /\ ~ValidData)
        => (DB = pre /\ resp.status = "render" /\ resp.errors)

(* C5 as amended: the same, for a POST that reaches the form: the requester *)
(* is logged in where the view requires login, and on an update view the    *)
(* primary key names a row the requester authored.                          *)
C5_InvalidPostReachingFormRerenders ==
    (/\ req.view \in CreateViews \cup UpdateViews
     /\ req.method = "POST"
     /\ ~ValidData
     /\ (req.view \in LoginProtected => Authenticated)
     /\ (req.view \in UpdateViews => OwnsTarget))
        => (DB = pre /\ resp.status = "render" /\ resp.errors)

C5_Witness ==
    /\ req.view = "ProjectUpdateView"
    /\ req.method = "POST"
    /\ ~ValidData
    /\ Authenticated
    /\ OwnsTarget
    /\ resp.status = "render"
    /\ resp.errors

----------------------------------------------------------------------------
(* C6: when the owner U of a Client or Project row submits a valid update,  *)
(* the response is a redirect to the list route and a following fetch of    *)
(* the row by U (a GET of the update view) shows exactly the submitted      *)
(* values: name for a Client, name and client for a Project.                *)
C6_UpdateRoundTrip ==
    /\ (/\ req.view = "ClientUpdateView"
        /\ req.method = "POST"
        /\ Authenticated
        /\ OwnsTarget
        /\ ValidData)
           => /\ resp = Redirect("client-list")
              /\ ClientUpdateView(req.user, "GET", req.pk, NoData).resp.object
                    = <<[name |-> req.data.name, author |-> req.user]>>
    /\ (/\ req.view = "ProjectUpdateView"
        /\ req.method = "POST"
        /\ Authenticated
        /\ OwnsTarget
        /\ ValidData)
           => /\ resp = Redirect("project-list")
              /\ ProjectUpdateView(req.user, "GET", req.pk, NoData).resp.object
                    = <<[name |-> req.data.name, client |-> req.data.client,
                         author |-> req.user]>>

C6_Witness ==
    /\ req.view = "ProjectUpdateView"
    /\ req.method = "POST"
    /\ Authenticated
    /\ OwnsTarget
    /\ ValidData
    /\ req.data.name # pre.projects[req.pk].name
    /\ req.data.client # pre.projects[req.pk].client
    /\ projects[req.pk].name = req.data.name
    /\ projects[req.pk].client = req.data.client

----------------------------------------------------------------------------
(* C7: logout leaves the requesting session anonymous, whatever it was      *)
(* before, answers with a redirect to "/" and changes no row; only a login  *)
(* or a logout changes who a session belongs to, and every request of an    *)
(* anonymous session to a login-protected view is redirected to the login   *)
(* flow and changes no row.                                                 *)
C7_Step ==
    /\ (session' # session => req'.view \in {"login", "logout"})
    /\ (Idle /\ req'.view = "logout") =>
          /\ session'[req'.session] = Anonymous
          /\ resp' = Redirect("/")
          /\ DB' = DB
    /\ (Idle /\ req'.view \in LoginProtected
             /\ session[req'.session] = Anonymous) =>
          /\ IsLoginRedirect'
          /\ DB' = DB

C7_LogoutInvalidatesSession == [][C7_Step]_vars

C7_Witness ==
    /\ req.view = "ProjectCreateView"
    /\ req.method = "POST"
    /\ req.user = Anonymous
    /\ ValidData
    /\ Len(clients) > 0
    /\ \E pk \in DOMAIN clients : clients[pk].author \in Users
    /\ IsLoginRedirect

----------------------------------------------------------------------------
(* C8: 0005 is applied only after 0004 and 0004 only after 0003; applying   *)
(* 0004 or 0005 adds and removes no row and alters no prior field of a row, *)
(* and every row of a table that gained the author column has author NULL   *)
(* afterwards.                                                              *)
C8_MigrationsOrderedAndAdditive ==
    /\ M0005 \in applied => M0004 \in applied
    /\ M0004 \in applied => M0003 \in applied
    /\ req.view = M0004 =>
          /\ clients = pre.clients
          /\ projects = pre.projects
          /\ DOMAIN entries = DOMAIN pre.entries
          /\ \A pk \in DOMAIN entries :
                entries[pk] = [pre.entries[pk] EXCEPT !.author = Null]
    /\ req.view = M0005 =>
          /\ entries = pre.entries
          /\ DOMAIN clients = DOMAIN pre.clients
          /\ DOMAIN projects = DOMAIN pre.projects
          /\ \A pk \in DOMAIN clients :
                clients[pk] = [pre.clients[pk] EXCEPT !.author = Null]
          /\ \A pk \in DOMAIN projects :
                projects[pk] = [pre.projects[pk] EXCEPT !.author = Null]

C8_Witness ==
    /\ req.view = M0005
    /\ applied = {M0003, M0004, M0005}
    /\ Len(pre.clients) > 0
    /\ Len(pre.projects) > 0
    /\ Len(pre.entries) > 0
    /\ pre.clients[1].author = NoColumn
    /\ clients[1].author = Null
    /\ projects[1].author = Null
    /\ entries[1].author = Null

----------------------------------------------------------------------------
(* C9: no request to a class-based view changes the author of a stored row  *)
(* or removes a row; a successful update of a Client or Project row changes *)
(* only the form's fields of that row (name; name and client) and leaves    *)
(* every other row of every table as it was.                                *)
AuthorsKept(before, after) ==
    /\ Len(after) >= Len(before)
    /\ \A pk \in DOMAIN before : after[pk].author = before[pk].author

C9_AuthorNeverChanges ==
    req.view \in ClassBasedViews =>
        /\ AuthorsKept(pre.clients, clients)
        /\ AuthorsKept(pre.projects, projects)
        /\ AuthorsKept(pre.entries, entries)
        /\ (req.view = "ClientUpdateView" /\ DB # pre) =>
              /\ projects = pre.projects
              /\ entries = pre.entries
              /\ clients = [pre.clients EXCEPT ![req.pk].name = req.data.name]
        /\ (req.view = "ProjectUpdateView" /\ DB # pre) =>
              /\ clients = pre.clients
              /\ entries = pre.entries
              /\ projects = [pre.projects EXCEPT
                               ![req.pk].name = req.data.name,
                               ![req.pk].client = req.data.client]

C9_Witness ==
    /\ req.view = "ClientUpdateView"
    /\ req.method = "POST"
    /\ Authenticated
    /\ req.pk \in DOMAIN pre.clients
    /\ Len(clients) >= 2
    /\ \E pk \in DOMAIN clients : clients[pk].author \notin {req.user, Null}
    /\ clients[req.pk].name # pre.clients[req.pk].name
    /\ clients[req.pk].author = req.user

----------------------------------------------------------------------------
(* C10: a Client or Project row whose author is NULL is resolved by the     *)
(* class-based update views for no authenticated user: the request is       *)
(* answered not-found and changes nothing; and no request to a class-based  *)
(* view changes such a row, so its author stays NULL.                       *)
NullRowsKept(before, after) ==
    \A pk \in DOMAIN before :
        before[pk].author = Null => (pk \in DOMAIN after /\ after[pk] = before[pk])

C10_NullAuthorRowsAreUnresolvable ==
    /\ (/\ req.view = "ClientUpdateView"
        /\ Authenticated
        /\ req.pk \in DOMAIN pre.clients
        /\ pre.clients[req.pk].author = Null)
           => (resp = NotFound /\ DB = pre)
    /\ (/\ req.view = "ProjectUpdateView"
        /\ Authenticated
        /\ req.pk \in DOMAIN pre.projects
        /\ pre.projects[req.pk].author = Null)
           => (resp = NotFound /\ DB = pre)
    /\ req.view \in ClassBasedViews =>
          /\ NullRowsKept(pre.clients, clients)
          /\ NullRowsKept(pre.projects, projects)

C10_Witness ==
    /\ req.view = "ClientUpdateView"
    /\ req.method = "POST"
    /\ Authenticated
    /\ ValidData
    /\ req.pk \in DOMAIN pre.clients
    /\ pre.clients[req.pk].author = Null
    /\ req.data.name # pre.clients[req.pk].name
    /\ resp.status = "not_found"
    /\ clients[req.pk] = pre.clients[req.pk]

====
